---- MODULE Spec2Model ----
(***************************************************************************)
(* Model of the AirBnBDataHandler module (createHandler and its methods,   *)
(* parseCSV, loadData) and of the readline interface startUI of            *)
(* Functional-Programming-with-JS.                                         *)
(*                                                                         *)
(* A listing is a record whose fields are strings, as csv-parse produces   *)
(* them; a field that is absent from the record's DOMAIN is the JavaScript *)
(* value undefined.  The record holds, under ownKeys, the names of the     *)
(* listing's properties in the order they were created: ownKeys itself is  *)
(* not a property of the listing, and no column of this model bears that   *)
(* name.  Numbers are exact decimals m / 10^e (or NaN); the     *)
(* quotient computed by computeStats is an exact fraction, so IEEE-754     *)
(* rounding is outside the model.                                          *)
(***************************************************************************)
EXTENDS Integers, Sequences, FiniteSets, Bags, TLC

VARIABLES loaded, data, pinnedIds, stats, hostRanking, call, ret,
          pos, answers, console, twin, files, inflight

vars == <<loaded, data, pinnedIds, stats, hostRanking, call, ret, pos, answers, console,
          twin, files, inflight>>

\* The file system as node:fs/promises shows it: files gives for each file
\* name whether the file exists and the text it holds (with the listings an
\* export encoded the text from, when the text is the whole text of one
\* export); inflight holds the calls of fs.writeFile and fs.readFile that
\* have not settled, each with the id of the promise that waits for it and
\* with how far the operation has got (at): a write opens the file, writes
\* and settles, a read opens the file, reads and settles.
ioVars == <<files, inflight>>

\* twin is a second handler, created from the same listings or by loadData:
\* its working set, its pinned ids and the calls it has received since it
\* was created or brought to the store state of the first handler;
\* [defined |-> FALSE] while there is none.
\*
\* The state of the readline interface of startUI: pos is the question that
\* is waiting for its answer (writeFile: none, the write of an export is
\* under way; writeFileClosed: the same with the interface closed; closed:
\* the interface is closed and nothing is under way; crashed: the process
\* has ended on a rejection that nothing handled), answers the answers the
\* pending callbacks have captured, console what the last step has printed.
uiVars == <<pos, answers, console>>

(***************************************************************************)
(* Bounds of the model.                                                    *)
(***************************************************************************)
MaxLen == 2

\* How many calls of fs.writeFile and fs.readFile may wait to settle
MaxInFlight == 2

(***************************************************************************)
(* Strings, character by character.                                        *)
(***************************************************************************)
Ch(s, i) == SubSeq(s, i, i)

\* StrWhiteSpaceChar, which parseFloat, parseInt, Number and trim skip: TAB,
\* LF, CR, FF, SP, then VT (U+000B), NBSP (U+00A0), ZWNBSP (U+FEFF) and
\* U+1680.  Its other members (U+2000 to U+200A, U+2028, U+2029, U+202F,
\* U+205F, U+3000) are characters no string of this model holds.
WhiteSpace == {" ", "\t", "\n", "\r", "\f", "", " ", "﻿", " "}

Digits == {"0", "1", "2", "3", "4", "5", "6", "7", "8", "9"}

DigitVal(c) ==
  CASE c = "0" -> 0 [] c = "1" -> 1 [] c = "2" -> 2 [] c = "3" -> 3
    [] c = "4" -> 4 [] c = "5" -> 5 [] c = "6" -> 6 [] c = "7" -> 7
    [] c = "8" -> 8 [] c = "9" -> 9

RECURSIVE Pow10(_)
Pow10(n) == IF n = 0 THEN 1 ELSE 10 * Pow10(n - 1)

\* First index at or after i that does not hold white space.
RECURSIVE SkipWhiteSpace(_, _)
SkipWhiteSpace(s, i) ==
  IF i <= Len(s) /\ Ch(s, i) \in WhiteSpace THEN SkipWhiteSpace(s, i + 1) ELSE i

\* First index at or after i that does not hold a decimal digit.
RECURSIVE DigitsEnd(_, _)
DigitsEnd(s, i) ==
  IF i <= Len(s) /\ Ch(s, i) \in Digits THEN DigitsEnd(s, i + 1) ELSE i

\* Value of the decimal digits s[i .. j-1] (0 for an empty run).
RECURSIVE DigitsValue(_, _, _)
DigitsValue(s, i, j) ==
  IF j <= i THEN 0 ELSE 10 * DigitsValue(s, i, j - 1) + DigitVal(Ch(s, j - 1))

(***************************************************************************)
(* JavaScript numbers: NaN, or the exact decimal m / 10^e, kept normalised *)
(* (no trailing zero in m while e > 0) so that equal values are equal      *)
(* records.                                                                *)
(***************************************************************************)
NaN == [nan |-> TRUE, m |-> 0, e |-> 0]

RECURSIVE Normalise(_, _)
Normalise(m, e) ==
  IF e > 0 /\ m % 10 = 0 THEN Normalise(m \div 10, e - 1)
  ELSE [nan |-> FALSE, m |-> m, e |-> e]

Num(i) == [nan |-> FALSE, m |-> i, e |-> 0]

Max(a, b) == IF a >= b THEN a ELSE b

\* m of x rescaled to the exponent e >= x.e
Scaled(x, e) == x.m * Pow10(e - x.e)

\* a + b
NumAdd(a, b) ==
  IF a.nan \/ b.nan THEN NaN
  ELSE LET e == Max(a.e, b.e) IN Normalise(Scaled(a, e) + Scaled(b, e), e)

\* a >= b: false when either side is NaN
NumGE(a, b) ==
  /\ ~a.nan
  /\ ~b.nan
  /\ LET e == Max(a.e, b.e) IN Scaled(a, e) >= Scaled(b, e)

\* a <= b: false when either side is NaN
NumLE(a, b) == NumGE(b, a)

\* ToBoolean of a number: NaN and 0 are falsy
NumTruthy(a) == ~a.nan /\ a.m # 0

\* x || 0
OrZero(x) == IF NumTruthy(x) THEN x ELSE Num(0)

(***************************************************************************)
(* parseFloat(string): white space is skipped, then the longest prefix     *)
(* that is a decimal literal (sign, digits, fraction, exponent) is read;   *)
(* whatever follows is ignored; no such prefix gives NaN.  The literal     *)
(* "Infinity" is not read by this model: no listing of the model holds it. *)
(***************************************************************************)
IsSign(s, i) == i <= Len(s) /\ Ch(s, i) \in {"+", "-"}

\* The exponent part starting at index i: [end |-> index after it, x |-> its value],
\* or end = i and x = 0 when there is no well-formed exponent part at i.
ExponentPart(s, i) ==
  IF i <= Len(s) /\ Ch(s, i) \in {"e", "E"}
  THEN LET d == IF IsSign(s, i + 1) THEN i + 2 ELSE i + 1
           z == DigitsEnd(s, d)
       IN IF z = d THEN [end |-> i, x |-> 0]
          ELSE [end |-> z,
                x |-> IF IsSign(s, i + 1) /\ Ch(s, i + 1) = "-"
                      THEN 0 - DigitsValue(s, d, z) ELSE DigitsValue(s, d, z)]
  ELSE [end |-> i, x |-> 0]

parseFloat(s) ==
  LET i0 == SkipWhiteSpace(s, 1)
      neg == IsSign(s, i0) /\ Ch(s, i0) = "-"
      i1 == IF IsSign(s, i0) THEN i0 + 1 ELSE i0
      j == DigitsEnd(s, i1)
      dot == j <= Len(s) /\ Ch(s, j) = "."
      k == IF dot THEN DigitsEnd(s, j + 1) ELSE j
      frac == IF dot THEN k - (j + 1) ELSE 0
      mant == DigitsValue(s, i1, j) * Pow10(frac)
              + (IF dot THEN DigitsValue(s, j + 1, k) ELSE 0)
      ex == ExponentPart(s, k).x
      m == IF neg THEN 0 - mant ELSE mant
  IN IF j = i1 /\ frac = 0 THEN NaN
     ELSE IF ex >= 0 THEN Normalise(m * Pow10(ex), frac)
     ELSE Normalise(m, frac - ex)

(***************************************************************************)
(* parseInt(string) with no radix: white space is skipped, a sign is read, *)
(* a "0x" or "0X" prefix selects radix 16, otherwise radix 10; the longest *)
(* run of digits of the radix is read and the rest ignored; an empty run   *)
(* gives NaN.                                                              *)
(***************************************************************************)
HexDigits == Digits \cup {"a", "b", "c", "d", "e", "f", "A", "B", "C", "D", "E", "F"}

HexVal(c) ==
  CASE c \in Digits -> DigitVal(c)
    [] c \in {"a", "A"} -> 10 [] c \in {"b", "B"} -> 11 [] c \in {"c", "C"} -> 12
    [] c \in {"d", "D"} -> 13 [] c \in {"e", "E"} -> 14 [] c \in {"f", "F"} -> 15

RECURSIVE HexEnd(_, _)
HexEnd(s, i) ==
  IF i <= Len(s) /\ Ch(s, i) \in HexDigits THEN HexEnd(s, i + 1) ELSE i

RECURSIVE HexValue(_, _, _)
HexValue(s, i, j) ==
  IF j <= i THEN 0 ELSE 16 * HexValue(s, i, j - 1) + HexVal(Ch(s, j - 1))

parseInt(s) ==
  LET i0 == SkipWhiteSpace(s, 1)
      neg == IsSign(s, i0) /\ Ch(s, i0) = "-"
      i1 == IF IsSign(s, i0) THEN i0 + 1 ELSE i0
      hex == i1 + 1 <= Len(s) /\ Ch(s, i1) = "0" /\ Ch(s, i1 + 1) \in {"x", "X"}
      i2 == IF hex THEN i1 + 2 ELSE i1
      j == IF hex THEN HexEnd(s, i2) ELSE DigitsEnd(s, i2)
      v == IF hex THEN HexValue(s, i2, j) ELSE DigitsValue(s, i2, j)
  IN IF j = i2 THEN NaN ELSE Num(IF neg THEN 0 - v ELSE v)

(***************************************************************************)
(* Listings.  listing[f] for a field f outside DOMAIN listing is           *)
(* undefined: parseFloat and parseInt first turn it into the string        *)
(* "undefined", which reads as NaN, and as a condition it is falsy.        *)
(* The fields read by name (price, bedrooms, review_scores_rating, id,     *)
(* host_id) are no members of Object.prototype, so a listing without one   *)
(* inherits none.                                                          *)
(***************************************************************************)
Has(listing, f) == f \in DOMAIN listing /\ f # "ownKeys"

\* String(listing[f])
FieldString(listing, f) == IF Has(listing, f) THEN listing[f] ELSE "undefined"

\* ToBoolean(listing[f]): undefined and the empty string are falsy
FieldTruthy(listing, f) == Has(listing, f) /\ listing[f] # ""

(***************************************************************************)
(* filter(criteria): the callback of data.filter.  A criteria object is a  *)
(* record that may hold priceRange (a pair <<min, max>>), rooms and        *)
(* reviewScore (integers); a criterion is applied when its value is        *)
(* truthy: an array always is, a number when it is not 0.                  *)
(***************************************************************************)
CriterionTruthy(criteria, f) ==
  /\ Has(criteria, f)
  /\ IF f = "priceRange" THEN TRUE ELSE criteria[f] # 0

\* PriceValid with the upper bound excluded (< for <=)
PriceValidExclusive(listing, criteria) ==
  LET price == parseFloat(FieldString(listing, "price"))
  IN /\ NumGE(price, Num(criteria.priceRange[1]))
     /\ NumLE(price, Num(criteria.priceRange[2]))
     /\ price # Num(criteria.priceRange[2])

PriceValid(listing, criteria) ==
  LET price == parseFloat(FieldString(listing, "price"))
  IN /\ NumGE(price, Num(criteria.priceRange[1]))
     /\ NumLE(price, Num(criteria.priceRange[2]))

RoomsValid(listing, criteria) ==
  LET rooms == OrZero(parseInt(FieldString(listing, "bedrooms")))
  IN NumGE(rooms, Num(criteria.rooms))

ScoreValid(listing, criteria) ==
  LET score == OrZero(parseFloat(FieldString(listing, "review_scores_rating")))
  IN NumGE(score, Num(criteria.reviewScore))

\* ListingValid, each criterion deciding alone (valid = ... for valid = valid && ...)
ListingValidLastOnly(listing, criteria) ==
  IF CriterionTruthy(criteria, "reviewScore") THEN ScoreValid(listing, criteria)
  ELSE IF CriterionTruthy(criteria, "rooms") THEN RoomsValid(listing, criteria)
  ELSE IF CriterionTruthy(criteria, "priceRange") THEN PriceValid(listing, criteria)
  ELSE TRUE

\* ListingValid, an omitted bedroom threshold read as 1
ListingValidDefaultRooms(listing, criteria) ==
  /\ CriterionTruthy(criteria, "priceRange") => PriceValid(listing, criteria)
  /\ RoomsValid(listing, IF CriterionTruthy(criteria, "rooms") THEN criteria ELSE [rooms |-> 1])
  /\ CriterionTruthy(criteria, "reviewScore") => ScoreValid(listing, criteria)

ListingValid(listing, criteria) ==
  /\ CriterionTruthy(criteria, "priceRange") => PriceValid(listing, criteria)
  /\ CriterionTruthy(criteria, "rooms") => RoomsValid(listing, criteria)
  /\ CriterionTruthy(criteria, "reviewScore") => ScoreValid(listing, criteria)

\* filter, the matches collected in front of one another (unshift for push)
RECURSIVE filterUnshift(_, _)
filterUnshift(d, criteria) ==
  IF d = <<>> THEN <<>>
  ELSE IF ListingValid(Head(d), criteria)
  THEN Append(filterUnshift(Tail(d), criteria), Head(d))
  ELSE filterUnshift(Tail(d), criteria)

filter(d, criteria) ==
  LET valid(listing) == ListingValid(listing, criteria)
  IN SelectSeq(d, valid)

(***************************************************************************)
(* computeStats: count, and total price over total bedrooms as an exact    *)
(* fraction num / den in lowest terms with den > 0.                        *)
(***************************************************************************)
Abs(x) == IF x < 0 THEN 0 - x ELSE x

RECURSIVE GCD(_, _)
GCD(a, b) == IF b = 0 THEN a ELSE GCD(b, a % b)

\* n / d for integers n and d # 0
Fraction(n, d) ==
  LET g == GCD(Abs(n), Abs(d))
      sgn == IF d < 0 THEN 0 - 1 ELSE 1
  IN [num |-> sgn * (n \div g), den |-> sgn * (d \div g)]

\* a / b for numbers a and b, b neither NaN nor 0
NumDiv(a, b) == Fraction(a.m * Pow10(b.e), b.m * Pow10(a.e))

RECURSIVE totalPrice(_)
totalPrice(d) ==
  IF d = <<>> THEN Num(0)
  ELSE NumAdd(totalPrice(SubSeq(d, 1, Len(d) - 1)),
              OrZero(parseFloat(FieldString(d[Len(d)], "price"))))

RECURSIVE totalBedrooms(_)
totalBedrooms(d) ==
  IF d = <<>> THEN Num(0)
  ELSE NumAdd(totalBedrooms(SubSeq(d, 1, Len(d) - 1)),
              OrZero(parseInt(FieldString(d[Len(d)], "bedrooms"))))

\* avgPricePerBedroom, the total price over the number of listings
avgPricePerListing(d) ==
  IF Len(d) # 0 THEN NumDiv(totalPrice(d), Num(Len(d))) ELSE Fraction(0, 1)

\* avgPricePerBedroom without the test of totalBedrooms: 0 / 0 is NaN, here
\* the fraction 0 / 0
avgPricePerBedroomUnguarded(d) ==
  IF NumTruthy(totalBedrooms(d)) THEN NumDiv(totalPrice(d), totalBedrooms(d))
  ELSE [num |-> 0, den |-> 0]

avgPricePerBedroom(d) ==
  IF NumTruthy(totalBedrooms(d)) THEN NumDiv(totalPrice(d), totalBedrooms(d))
  ELSE Fraction(0, 1)

computeStats(d) ==
  [defined |-> TRUE, count |-> Len(d), avgPricePerBedroom |-> avgPricePerBedroom(d)]

(***************************************************************************)
(* computeHostRanking.  The accumulator acc is a plain object: here the    *)
(* sequence of its own properties [host, count] in creation order.         *)
(* acc[host] with host = "__proto__" reads the inherited accessor, which   *)
(* yields Object.prototype: a truthy value, so (acc[host] || 0) + 1 is the *)
(* string "[object Object]1", and storing a string through that accessor   *)
(* changes nothing.  The other member names of Object.prototype            *)
(* ("constructor", "toString", ...) are not host ids of this model.        *)
(***************************************************************************)
\* The property key that listing.host_id is turned into
HostKey(listing) == FieldString(listing, "host_id")

\* Index in acc of the own property named host, or 0
RECURSIVE OwnIndex(_, _)
OwnIndex(acc, host) ==
  IF acc = <<>> THEN 0
  ELSE IF acc[Len(acc)].host = host THEN Len(acc)
  ELSE OwnIndex(SubSeq(acc, 1, Len(acc) - 1), host)

\* acc[host] = (acc[host] || 0) + 1; return acc
CountHost(acc, listing) ==
  LET host == HostKey(listing)
      i == OwnIndex(acc, host)
  IN IF host = "__proto__" THEN acc
     ELSE IF i = 0 THEN Append(acc, [host |-> host, count |-> 1])
     ELSE [acc EXCEPT ![i].count = @ + 1]

RECURSIVE ranking(_)
ranking(d) ==
  IF d = <<>> THEN <<>>
  ELSE CountHost(ranking(SubSeq(d, 1, Len(d) - 1)), d[Len(d)])

(***************************************************************************)
(* Object.entries(ranking): the own keys that are array indices (the       *)
(* canonical decimal strings of 0 .. 2^32 - 2) in ascending numeric order, *)
(* then the other keys in creation order.                                  *)
(***************************************************************************)
\* s < t for digit strings of the same length
RECURSIVE DigitStringLess(_, _, _)
DigitStringLess(s, t, i) ==
  IF i > Len(s) THEN FALSE
  ELSE IF Ch(s, i) = Ch(t, i) THEN DigitStringLess(s, t, i + 1)
  ELSE DigitVal(Ch(s, i)) < DigitVal(Ch(t, i))

IsArrayIndex(s) ==
  /\ Len(s) >= 1
  /\ DigitsEnd(s, 1) = Len(s) + 1
  /\ Len(s) = 1 \/ Ch(s, 1) # "0"
  /\ \/ Len(s) < 10
     \/ Len(s) = 10 /\ ~DigitStringLess("4294967294", s, 1)

\* s < t as numbers, for array indices s and t
IndexLess(s, t) ==
  \/ Len(s) < Len(t)
  \/ Len(s) = Len(t) /\ DigitStringLess(s, t, 1)

\* entry put into the ascending sequence sorted
RECURSIVE InsertIndexKey(_, _)
InsertIndexKey(sorted, entry) ==
  IF sorted = <<>> THEN <<entry>>
  ELSE IF IndexLess(entry.host, sorted[Len(sorted)].host)
  THEN Append(InsertIndexKey(SubSeq(sorted, 1, Len(sorted) - 1), entry), sorted[Len(sorted)])
  ELSE Append(sorted, entry)

RECURSIVE IndexKeysAscending(_)
IndexKeysAscending(acc) ==
  IF acc = <<>> THEN <<>>
  ELSE InsertIndexKey(IndexKeysAscending(SubSeq(acc, 1, Len(acc) - 1)), acc[Len(acc)])

ObjectEntries(acc) ==
  LET isIndex(entry) == IsArrayIndex(entry.host)
      isName(entry) == ~IsArrayIndex(entry.host)
  IN IndexKeysAscending(SelectSeq(acc, isIndex)) \o SelectSeq(acc, isName)

(***************************************************************************)
(* .sort((a, b) => b.count - a.count): a stable sort, greater count first. *)
(***************************************************************************)
RECURSIVE InsertByCount(_, _)
InsertByCount(sorted, entry) ==
  IF sorted = <<>> THEN <<entry>>
  ELSE IF sorted[Len(sorted)].count - entry.count < 0
  THEN Append(InsertByCount(SubSeq(sorted, 1, Len(sorted) - 1), entry), sorted[Len(sorted)])
  ELSE Append(sorted, entry)

RECURSIVE SortByCount(_)
SortByCount(entries) ==
  IF entries = <<>> THEN <<>>
  ELSE InsertByCount(SortByCount(SubSeq(entries, 1, Len(entries) - 1)), entries[Len(entries)])

computeHostRanking(d) ==
  [defined |-> TRUE, entries |-> SortByCount(ObjectEntries(ranking(d)))]

(***************************************************************************)
(* pinListing, getPinnedListings, getData.                                 *)
(***************************************************************************)
\* pinnedIds.includes(id)
Includes(ids, id) == \E i \in 1..Len(ids) : ids[i] = id

\* pinListing without the includes test
pinListingAgain(ids, listingId) == Append(ids, listingId)

pinListing(ids, listingId) ==
  IF ~Includes(ids, listingId) THEN Append(ids, listingId) ELSE ids

\* listing.id && pinnedIds.includes(listing.id)
IsPinned(listing, ids) == FieldTruthy(listing, "id") /\ Includes(ids, listing.id)

\* getPinnedListings, taken from the listings the handler was created with
getPinnedListingsOfLoaded(d, ids) ==
  LET pinned(listing) == IsPinned(listing, ids)
  IN SelectSeq(loaded, pinned)

getPinnedListings(d, ids) ==
  LET pinned(listing) == IsPinned(listing, ids)
  IN SelectSeq(d, pinned)

\* getData, the pinned listings put in front of the whole working set
getDataKeepingPinned(d, ids) ==
  LET pinned(listing) == IsPinned(listing, ids)
  IN IF Len(ids) > 0 THEN SelectSeq(d, pinned) \o d ELSE d

getData(d, ids) ==
  LET pinned(listing) == IsPinned(listing, ids)
      nonPinned(listing) == ~FieldTruthy(listing, "id") \/ ~Includes(ids, listing.id)
  IN IF Len(ids) > 0 THEN SelectSeq(d, pinned) \o SelectSeq(d, nonPinned) ELSE d

(***************************************************************************)
(* convertToCSV.  Object.keys(data[0]) lists the first listing's own keys: *)
(* those that are array indices in ascending numeric order, then the       *)
(* others in the order they were created.                                  *)
(***************************************************************************)
\* The keys put in ascending numeric order
KeysAscending(keys) ==
  LET sorted == IndexKeysAscending([k \in 1..Len(keys) |-> [host |-> keys[k]]])
  IN [k \in 1..Len(keys) |-> sorted[k].host]

ObjectKeys(listing) ==
  LET isIndex(key) == IsArrayIndex(key)
      isName(key) == ~IsArrayIndex(key)
  IN KeysAscending(SelectSeq(listing.ownKeys, isIndex)) \o SelectSeq(listing.ownKeys, isName)

\* fieldStr.includes(c)
StrIncludes(s, c) == \E i \in 1..Len(s) : Ch(s, i) = c

\* fieldStr.replace(/"/g, '""')
RECURSIVE DoubleQuotes(_)
DoubleQuotes(s) ==
  IF s = "" THEN ""
  ELSE DoubleQuotes(SubSeq(s, 1, Len(s) - 1))
       \o (IF Ch(s, Len(s)) = "\"" THEN "\"\"" ELSE Ch(s, Len(s)))

\* The members of Object.prototype that are functions
PrototypeFunctions ==
  {"constructor", "toString", "toLocaleString", "valueOf", "hasOwnProperty",
   "isPrototypeOf", "propertyIsEnumerable", "__defineGetter__", "__defineSetter__",
   "__lookupGetter__", "__lookupSetter__"}

\* row[header] is found on Object.prototype when row has no such property
IsInherited(header) == header \in PrototypeFunctions \cup {"__proto__"}

\* String(Object.prototype[header]): the text of a native function, and for
\* "__proto__" (the accessor yields Object.prototype itself) of a plain object
InheritedString(header) ==
  IF header = "__proto__" THEN "[object Object]"
  ELSE IF header = "constructor" THEN "function Object() { [native code] }"
  ELSE "function " \o header \o "() { [native code] }"

\* quoteField(row[header]): row[header] is the row's own property, else the
\* member of Object.prototype of that name, else undefined
quoteField(row, header) ==
  IF ~Has(row, header) /\ ~IsInherited(header) THEN ""
  ELSE LET fieldStr == IF Has(row, header) THEN row[header] ELSE InheritedString(header)
       IN IF StrIncludes(fieldStr, ",") \/ StrIncludes(fieldStr, "\"")
             \/ StrIncludes(fieldStr, "\n")
          THEN "\"" \o DoubleQuotes(fieldStr) \o "\""
          ELSE fieldStr

\* strings.join(sep)
RECURSIVE Join(_, _)
Join(strings, sep) ==
  IF strings = <<>> THEN ""
  ELSE IF Len(strings) = 1 THEN strings[1]
  ELSE Join(SubSeq(strings, 1, Len(strings) - 1), sep) \o sep \o strings[Len(strings)]

convertToCSV(d) ==
  IF Len(d) = 0 THEN ""
  ELSE LET headers == ObjectKeys(d[1])
           headerLine == Join(headers, ",")
           rows == [i \in 1..Len(d) |->
                      Join([h \in 1..Len(headers) |-> quoteField(d[i], headers[h])], ",")]
       IN Join(<<headerLine>> \o rows, "\n")

(***************************************************************************)
(* parseCSV: parse of csv-parse/sync with columns: true and                *)
(* skip_empty_lines: true, the other options at their defaults: fields are *)
(* separated by ",", records by "\n", a field that starts with '"' runs to  *)
(* the closing '"' with "" read as one '"'; a line with nothing on it is    *)
(* skipped; the first record names the columns and every later record must *)
(* have as many fields.  The text holds no "\r" in this model.             *)
(***************************************************************************)
\* The parser before the first character; skip: the next character is the
\* second quote of "" and has been read already
ParserInit ==
  [quoting |-> FALSE, wasQuoting |-> FALSE, skip |-> FALSE, field |-> "",
   record |-> <<>>, records |-> <<>>, error |-> FALSE]

\* The field read so far is complete
OnField(st) ==
  [st EXCEPT !.record = Append(@, st.field), !.field = "", !.wasQuoting = FALSE]

\* The record read so far is complete
OnRecord(st) == [st EXCEPT !.records = Append(@, st.record), !.record = <<>>]

\* The parser after character i of csvData
ParseChar(csvData, i, st) ==
  LET chr == Ch(csvData, i)
      isLast == i = Len(csvData)
  IN IF st.error THEN st
     ELSE IF st.skip THEN [st EXCEPT !.skip = FALSE]
     ELSE IF st.quoting
     THEN IF chr = "\""
          THEN IF ~isLast /\ Ch(csvData, i + 1) = "\""
               THEN [st EXCEPT !.field = @ \o "\"", !.skip = TRUE]
               ELSE IF isLast \/ Ch(csvData, i + 1) \in {",", "\n"}
               THEN [st EXCEPT !.quoting = FALSE, !.wasQuoting = TRUE]
               ELSE [st EXCEPT !.error = TRUE]
          ELSE [st EXCEPT !.field = @ \o chr]
     ELSE IF chr = "\""
     THEN IF st.field = "" THEN [st EXCEPT !.quoting = TRUE]
          ELSE [st EXCEPT !.error = TRUE]
     ELSE IF chr = "\n"
     THEN IF ~st.wasQuoting /\ st.record = <<>> /\ st.field = "" THEN st
          ELSE OnRecord(OnField(st))
     ELSE IF chr = "," THEN OnField(st)
     ELSE [st EXCEPT !.field = @ \o chr]

\* The parser after the characters i .. j of csvData: after i .. mid, then
\* after mid + 1 .. j from the state half that the first half has left
RECURSIVE ParseChars(_, _, _, _)
ParseChars(csvData, i, j, st) ==
  IF i > j THEN st
  ELSE IF i = j THEN ParseChar(csvData, i, st)
  ELSE LET mid == (i + j) \div 2
       IN CHOOSE end \in {ParseChars(csvData, mid + 1, j, half) :
                            half \in {ParseChars(csvData, i, mid, st)}} : TRUE

\* The parser at the end of csvData
Parse(csvData) ==
  LET st == ParseChars(csvData, 1, Len(csvData), ParserInit)
  IN IF st.error THEN st
     ELSE IF st.quoting THEN [st EXCEPT !.error = TRUE]
     ELSE IF st.wasQuoting \/ st.record # <<>> \/ st.field # ""
     THEN OnRecord(OnField(st))
     ELSE st

\* The names of columns in the order of their first occurrence
RECURSIVE FirstOccurrences(_)
FirstOccurrences(columns) ==
  IF columns = <<>> THEN <<>>
  ELSE LET before == FirstOccurrences(SubSeq(columns, 1, Len(columns) - 1))
           name == columns[Len(columns)]
       IN IF \E k \in 1..Len(before) : before[k] = name THEN before
          ELSE Append(before, name)

\* obj = {}; obj[columns[i].name] = record[i] for each i in turn: a repeated
\* name keeps the last of its fields, and an assignment to __proto__ of a
\* string creates no property
RowObject(columns, record) ==
  LET own(name) == name # "__proto__"
      names == SelectSeq(FirstOccurrences(columns), own)
  IN [h \in {names[k] : k \in 1..Len(names)} |->
        record[CHOOSE k \in 1..Len(columns) :
                 columns[k] = h /\ \A j \in (k + 1)..Len(columns) : columns[j] # h]]
     @@ [ownKeys |-> names]

\* threw: parse has thrown; value: the listings otherwise
parseCSV(csvData) ==
  LET st == Parse(csvData)
      rows == st.records
  IN IF st.error \/ \E k \in 2..Len(rows) : Len(rows[k]) # Len(rows[1])
     THEN [threw |-> TRUE]
     ELSE [threw |-> FALSE,
           value |-> [k \in 1..(Len(rows) - 1) |-> RowObject(rows[1], rows[k + 1])]]

(***************************************************************************)
(* The listings and arguments the model draws from.                        *)
(***************************************************************************)
\* The columns that the module's comment names, in its order
Columns == <<"id", "price", "bedrooms", "review_scores_rating", "host_id">>

ListingA ==
  [id |-> "A", price |-> "100", bedrooms |-> "1", review_scores_rating |-> "4.5",
   host_id |-> "7", ownKeys |-> Columns]

ListingB ==
  [id |-> "B", price |-> "150", bedrooms |-> "2", review_scores_rating |-> "3",
   host_id |-> "3", ownKeys |-> Columns]

ListingC ==
  [id |-> "C", price |-> "0", bedrooms |-> "0", review_scores_rating |-> "",
   host_id |-> "7", ownKeys |-> Columns]

ListingD ==
  [id |-> "D", price |-> "80.50", bedrooms |-> "3", review_scores_rating |-> "4",
   host_id |-> "12", ownKeys |-> Columns]

\* Dirty fields: an empty id, a price that is no number, a negative count
ListingDirty ==
  [id |-> "", price |-> "$99", bedrooms |-> "-1", review_scores_rating |-> " 5\n",
   host_id |-> "__proto__", ownKeys |-> Columns]

\* Missing fields: no id, bedrooms or review_scores_rating
ListingSparse ==
  [price |-> "12, Main St", host_id |-> "h\"1", ownKeys |-> <<"price", "host_id">>]

Listings == {ListingA, ListingB, ListingC, ListingDirty, ListingSparse}

\* A price above 150
ListingHigh ==
  [id |-> "H", price |-> "150.5", bedrooms |-> "2", review_scores_rating |-> "4.5",
   host_id |-> "3", ownKeys |-> Columns]

\* Listings of a file with the one column id, the first from the line ""
ListingBare == [id |-> "", ownKeys |-> <<"id">>]

ListingLone == [id |-> "B", ownKeys |-> <<"id">>]

\* A listing with a property named like a member of Object.prototype
ListingNamed == [toString |-> "a", id |-> "1", ownKeys |-> <<"toString", "id">>]

\* Listings of a file with the header price,7,id: the price created first
ListingSwapped ==
  [price |-> "1", id |-> "x", ownKeys |-> <<"price", "7", "id">>] @@ ("7" :> "n")

\* The sequences over S of length at most n
RECURSIVE SeqsUpTo(_, _)
SeqsUpTo(S, n) ==
  IF n = 0 THEN {<<>>}
  ELSE LET shorter == SeqsUpTo(S, n - 1)
       IN shorter \cup {Append(q, x) : q \in shorter, x \in S}

\* Working set [C, A, D, B] by id
PinScenario == <<ListingC, ListingA, ListingD, ListingB>>

\* Bedrooms 1, 2, 0 and prices 100, 150, 0
StatsScenario == <<ListingA, ListingB, ListingC>>

Datasets == SeqsUpTo(Listings, MaxLen) \cup {PinScenario, StatsScenario}

\* Prices above 150, 150, none (the listing has no price field) and 100
PriceScenario == <<ListingHigh, ListingB, ListingLone, ListingA>>

\* The listings the specification of the filter starts from
FilterDatasets == Datasets \cup {PriceScenario}

\* The listings the export and load specification starts from
CsvDatasets ==
  {<<ListingA, ListingDirty>>, <<ListingSparse>>, <<ListingSwapped>>, <<ListingBare>>,
   <<ListingBare, ListingLone>>, <<ListingLone, ListingA>>, <<>>}

\* The listing ids drawn by the export and load specification
CsvPinIds == {"B"}

\* Ranges with listings on both bounds, below, inside and above, and one
\* with min above max
PriceRanges == {<<100, 150>>, <<0, 100>>, <<150, 100>>}

RoomThresholds == {0, 1, 2}

ScoreThresholds == {0, 4}

\* The criteria object {}
NoCriteria == [f \in {} |-> 0]

\* The criteria objects: each criterion present or omitted
CriteriaSet ==
  { p @@ r @@ s :
      p \in {NoCriteria} \cup {[priceRange |-> x] : x \in PriceRanges},
      r \in {NoCriteria} \cup {[rooms |-> x] : x \in RoomThresholds},
      s \in {NoCriteria} \cup {[reviewScore |-> x] : x \in ScoreThresholds} }

\* The criteria drawn by the specification of the whole handler
HandlerCriteria ==
  {NoCriteria, [rooms |-> 1], [rooms |-> 2], [priceRange |-> <<100, 150>>]}

PinIds == {"A", "B", ""}

FileNames == {"out.csv"}

Undefined == [defined |-> FALSE]

\* No file of that name
NoFile == [exists |-> FALSE]

\* No answer captured
NoAnswers == [f \in {} |-> ""]

This == [kind |-> "handler"]

(***************************************************************************)
(* createHandler(listings), then one action per method call.  call and ret *)
(* record the last call and what it returned; for a filter call, from is   *)
(* the working set the call found.  Spec holds the methods that work on    *)
(* the store alone; exportResults, which hands a text to the file system,  *)
(* is followed with them in ExportSpec.                                    *)
(***************************************************************************)
Init ==
  /\ loaded \in Datasets
  /\ data = loaded
  /\ pinnedIds = <<>>
  /\ stats = Undefined
  /\ hostRanking = Undefined
  /\ call = [op |-> "createHandler"]
  /\ ret = This
  /\ pos = "none"
  /\ answers = NoAnswers
  /\ console = <<>>
  /\ twin = Undefined
  /\ files = [fileName \in FileNames |-> NoFile]
  /\ inflight = <<>>

\* Filter, returning a new handler of the matches and leaving this one as it is
FilterIntoNewHandler(criteria) ==
  /\ call' = [op |-> "filter", arg |-> criteria, from |-> data]
  /\ ret' = [kind |-> "handler", listings |-> filter(data, criteria)]
  /\ UNCHANGED <<loaded, data, pinnedIds, stats, hostRanking>>
  /\ UNCHANGED uiVars
  /\ UNCHANGED twin
  /\ UNCHANGED ioVars

\* Filter, forgetting the pinned ids whose listing it has removed
FilterDroppingPins(criteria) ==
  /\ data' = filter(data, criteria)
  /\ pinnedIds' = LET kept(id) == \E i \in 1..Len(filter(data, criteria)) :
                                      IsPinned(filter(data, criteria)[i], <<id>>)
                  IN SelectSeq(pinnedIds, kept)
  /\ call' = [op |-> "filter", arg |-> criteria, from |-> data]
  /\ ret' = This
  /\ UNCHANGED <<loaded, stats, hostRanking>>
  /\ UNCHANGED uiVars
  /\ UNCHANGED twin
  /\ UNCHANGED ioVars

Filter(criteria) ==
  /\ data' = filter(data, criteria)
  /\ call' = [op |-> "filter", arg |-> criteria, from |-> data]
  /\ ret' = This
  /\ UNCHANGED <<loaded, pinnedIds, stats, hostRanking>>
  /\ UNCHANGED uiVars
  /\ UNCHANGED twin
  /\ UNCHANGED ioVars

ComputeStats ==
  /\ stats' = computeStats(data)
  /\ call' = [op |-> "computeStats"]
  /\ ret' = This
  /\ UNCHANGED <<loaded, data, pinnedIds, hostRanking>>
  /\ UNCHANGED uiVars
  /\ UNCHANGED twin
  /\ UNCHANGED ioVars

ComputeHostRanking ==
  /\ hostRanking' = computeHostRanking(data)
  /\ call' = [op |-> "computeHostRanking"]
  /\ ret' = This
  /\ UNCHANGED <<loaded, data, pinnedIds, stats>>
  /\ UNCHANGED uiVars
  /\ UNCHANGED twin
  /\ UNCHANGED ioVars

PinListing(listingId) ==
  /\ pinnedIds' = pinListing(pinnedIds, listingId)
  /\ call' = [op |-> "pinListing", arg |-> listingId]
  /\ ret' = This
  /\ UNCHANGED <<loaded, data, stats, hostRanking>>
  /\ UNCHANGED uiVars
  /\ UNCHANGED twin
  /\ UNCHANGED ioVars

GetPinnedListings ==
  /\ call' = [op |-> "getPinnedListings"]
  /\ ret' = [kind |-> "listings", value |-> getPinnedListings(data, pinnedIds)]
  /\ UNCHANGED <<loaded, data, pinnedIds, stats, hostRanking>>
  /\ UNCHANGED uiVars
  /\ UNCHANGED twin
  /\ UNCHANGED ioVars

GetData ==
  /\ call' = [op |-> "getData"]
  /\ ret' = [kind |-> "listings", value |-> getData(data, pinnedIds)]
  /\ UNCHANGED <<loaded, data, pinnedIds, stats, hostRanking>>
  /\ UNCHANGED uiVars
  /\ UNCHANGED twin
  /\ UNCHANGED ioVars

(***************************************************************************)
(* exportResults(fileName) encodes getData() and returns the promise of    *)
(* fs.writeFile, which is pending; calls made in between run on the        *)
(* handler.  fs.writeFile is not one step: it opens the file (which        *)
(* creates it, or empties the one that exists), writes the text at the     *)
(* beginning of the file and closes it, and only then is the promise       *)
(* fulfilled; the steps of two writes of one file interleave, and the text *)
(* written second lies over the text written first, the end of a longer    *)
(* first text showing behind it.  A write that is rejected is one that     *)
(* could not open the file, and has left it as it was; a failure of the    *)
(* later steps (a full disk) is outside the model, and so is a text so     *)
(* long that it is written in several pieces.                              *)
(***************************************************************************)
\* An id that no promise of inflight bears
FreeId ==
  CHOOSE id \in 1..(Len(inflight) + 1) : \A i \in 1..Len(inflight) : inflight[i].id # id

\* q without its i-th element
Without(q, i) == SubSeq(q, 1, i - 1) \o SubSeq(q, i + 1, Len(q))

\* The promise p once the operation of the promise id has settled
Settle(p, id, settled) ==
  IF p.kind = "promise" /\ p.state = "pending" /\ p.id = id
  THEN [p EXCEPT !.state = settled]
  ELSE p

\* How the operation o settles
Settled(o) == IF o.failed THEN "rejected" ELSE "fulfilled"

\* The call of fs.writeFile(fileName, csvOutput) that exportResults makes
WriteFile(fileName) ==
  [op |-> "writeFile", id |-> FreeId, file |-> fileName,
   data |-> convertToCSV(getData(data, pinnedIds)),
   from |-> getData(data, pinnedIds),
   at |-> "open", failed |-> FALSE]

\* The text of a file that held old once text is written at its beginning
Overlay(text, old) ==
  IF Len(text) >= Len(old) THEN text
  ELSE text \o SubSeq(old, Len(text) + 1, Len(old))

\* The file once the write w has written its text
Written(w) ==
  LET text == Overlay(w.data, files[w.file].data)
  IN [exists |-> TRUE, data |-> text,
      from |-> IF text = w.data THEN w.from ELSE <<>>]

\* ExportResults, the working set left in the order of getData
ExportResultsReordering(fileName) ==
  /\ Len(inflight) < MaxInFlight
  /\ call' = [op |-> "exportResults", arg |-> fileName]
  /\ ret' = [kind |-> "promise", state |-> "pending", id |-> FreeId]
  /\ inflight' = Append(inflight, WriteFile(fileName))
  /\ data' = getData(data, pinnedIds)
  /\ UNCHANGED <<loaded, pinnedIds, stats, hostRanking, files>>
  /\ UNCHANGED uiVars
  /\ UNCHANGED twin

ExportResults(fileName) ==
  /\ Len(inflight) < MaxInFlight
  /\ call' = [op |-> "exportResults", arg |-> fileName]
  /\ ret' = [kind |-> "promise", state |-> "pending", id |-> FreeId]
  /\ inflight' = Append(inflight, WriteFile(fileName))
  /\ UNCHANGED <<loaded, data, pinnedIds, stats, hostRanking, files>>
  /\ UNCHANGED uiVars
  /\ UNCHANGED twin

\* The i-th operation in flight, a write, opens its file: the file is
\* created or emptied, or the open fails and the file stays as it was
FsOpen(i, ok) ==
  /\ i \in 1..Len(inflight)
  /\ inflight[i].op = "writeFile"
  /\ inflight[i].at = "open"
  /\ IF ok
     THEN /\ files' = [files EXCEPT ![inflight[i].file] =
                                      [exists |-> TRUE, data |-> "", from |-> <<>>]]
          /\ inflight' = [inflight EXCEPT ![i].at = "write"]
     ELSE /\ inflight' = [inflight EXCEPT ![i].at = "settle", ![i].failed = TRUE]
          /\ UNCHANGED files
  /\ UNCHANGED <<loaded, data, pinnedIds, stats, hostRanking, call, ret>>
  /\ UNCHANGED uiVars
  /\ UNCHANGED twin

\* The i-th operation in flight, a write that has opened its file, writes
\* its text
FsWrite(i) ==
  /\ i \in 1..Len(inflight)
  /\ inflight[i].op = "writeFile"
  /\ inflight[i].at = "write"
  /\ files' = [files EXCEPT ![inflight[i].file] = Written(inflight[i])]
  /\ inflight' = [inflight EXCEPT ![i].at = "settle"]
  /\ UNCHANGED <<loaded, data, pinnedIds, stats, hostRanking, call, ret>>
  /\ UNCHANGED uiVars
  /\ UNCHANGED twin

\* The i-th operation in flight, a write that is done, settles
FsWriteFile(i) ==
  /\ i \in 1..Len(inflight)
  /\ inflight[i].op = "writeFile"
  /\ inflight[i].at = "settle"
  /\ inflight' = Without(inflight, i)
  /\ ret' = Settle(ret, inflight[i].id, Settled(inflight[i]))
  /\ UNCHANGED <<loaded, data, pinnedIds, stats, hostRanking, call, files>>
  /\ UNCHANGED uiVars
  /\ UNCHANGED twin

Next ==
  \/ \E criteria \in HandlerCriteria : Filter(criteria)
  \/ ComputeStats
  \/ ComputeHostRanking
  \/ \E listingId \in PinIds : PinListing(listingId)
  \/ GetPinnedListings
  \/ GetData

Spec == Init /\ [][Next]_vars

(***************************************************************************)
(* The handler with the file system: every method, exportResults among     *)
(* them, and the steps of the writes.                                      *)
(***************************************************************************)
ExportDatasets ==
  {<<ListingA, ListingB>>, <<ListingDirty, ListingSparse>>, <<ListingSwapped, ListingLone>>,
   <<ListingNamed, ListingLone>>, <<>>}

ExportInit ==
  /\ loaded \in ExportDatasets
  /\ data = loaded
  /\ pinnedIds = <<>>
  /\ stats = Undefined
  /\ hostRanking = Undefined
  /\ call = [op |-> "createHandler"]
  /\ ret = This
  /\ pos = "none"
  /\ answers = NoAnswers
  /\ console = <<>>
  /\ twin = Undefined
  /\ files = [fileName \in FileNames |-> NoFile]
  /\ inflight = <<>>

\* The criteria and the listing ids drawn with the exports
ExportCriteria == {NoCriteria, [rooms |-> 2]}

ExportPinIds == {"A", "B"}

ExportNext ==
  \/ \E criteria \in ExportCriteria : Filter(criteria)
  \/ ComputeStats
  \/ ComputeHostRanking
  \/ \E listingId \in ExportPinIds : PinListing(listingId)
  \/ GetPinnedListings
  \/ GetData
  \/ \E fileName \in FileNames : ExportResults(fileName)
  \/ \E i \in 1..MaxInFlight, ok \in BOOLEAN : FsOpen(i, ok)
  \/ \E i \in 1..MaxInFlight : FsWrite(i)
  \/ \E i \in 1..MaxInFlight : FsWriteFile(i)

ExportSpec == ExportInit /\ [][ExportNext]_vars

(***************************************************************************)
(* The filter alone, over every criteria object of CriteriaSet.            *)
(***************************************************************************)
FilterNext == \E criteria \in CriteriaSet : Filter(criteria)

FilterInit ==
  /\ loaded \in FilterDatasets
  /\ data = loaded
  /\ pinnedIds = <<>>
  /\ stats = Undefined
  /\ hostRanking = Undefined
  /\ call = [op |-> "createHandler"]
  /\ ret = This
  /\ pos = "none"
  /\ answers = NoAnswers
  /\ console = <<>>
  /\ twin = Undefined
  /\ files = [fileName \in FileNames |-> NoFile]
  /\ inflight = <<>>

FilterSpec == FilterInit /\ [][FilterNext]_vars

(***************************************************************************)
(* exportResults and loadData of the file it writes.  loadData(filePath)   *)
(* returns a pending promise and waits for fs.readFile; calls made in      *)
(* between run on the handler.  fs.readFile is not one step: it opens the  *)
(* file and learns its size, then reads, and only then is its promise      *)
(* settled; writes go on in between.  When the size it learnt is not 0 it  *)
(* reads once, at most that many characters; when it is 0 it reads on from *)
(* where the last read ended until a read finds nothing more.  So the text *)
(* it gives may be the text of an emptied file, the beginning of a text    *)
(* written since, or pieces of two texts.  (Every character of the texts   *)
(* of this model is one byte.)  When the read has settled, loadData goes   *)
(* on: it parses the text and creates a new handler of the parsed          *)
(* listings, which fulfils its promise (the handler that exported stays as *)
(* it is); when the file did not exist or parseCSV throws, it prints the   *)
(* error and its promise is rejected.  A file that exists can be read.     *)
(***************************************************************************)
CsvInit ==
  /\ loaded \in CsvDatasets
  /\ data = loaded
  /\ pinnedIds = <<>>
  /\ stats = Undefined
  /\ hostRanking = Undefined
  /\ call = [op |-> "createHandler"]
  /\ ret = This
  /\ pos = "none"
  /\ answers = NoAnswers
  /\ console = <<>>
  /\ twin = Undefined
  /\ files = [fileName \in FileNames |-> NoFile]
  /\ inflight = <<>>

LoadData(filePath) ==
  /\ Len(inflight) < MaxInFlight
  /\ call' = [op |-> "loadData", arg |-> filePath]
  /\ ret' = [kind |-> "promise", state |-> "pending", id |-> FreeId]
  /\ inflight' = Append(inflight,
                        [op |-> "readFile", id |-> FreeId, file |-> filePath,
                         size |-> 0, data |-> "", from |-> <<>>,
                         at |-> "open", failed |-> FALSE])
  /\ UNCHANGED <<loaded, data, pinnedIds, stats, hostRanking, files>>
  /\ UNCHANGED uiVars
  /\ UNCHANGED twin

\* The i-th operation in flight, a read, opens the file and learns its
\* size, or fails because there is no such file
FsStat(i) ==
  /\ i \in 1..Len(inflight)
  /\ inflight[i].op = "readFile"
  /\ inflight[i].at = "open"
  /\ inflight' = IF files[inflight[i].file].exists
                 THEN [inflight EXCEPT ![i].at = "read",
                                       ![i].size = Len(files[inflight[i].file].data)]
                 ELSE [inflight EXCEPT ![i].at = "settle", ![i].failed = TRUE]
  /\ UNCHANGED <<loaded, data, pinnedIds, stats, hostRanking, call, ret, files>>
  /\ UNCHANGED uiVars
  /\ UNCHANGED twin

\* What a read of at most length characters finds in text after the first
\* position characters
ReadAt(text, position, length) ==
  IF position >= Len(text) \/ length = 0 THEN ""
  ELSE IF position + length >= Len(text) THEN SubSeq(text, position + 1, Len(text))
  ELSE SubSeq(text, position + 1, position + length)

\* The read r after one more read of its file: with a known size that one
\* read ends it, with none a read that finds nothing ends it.  from is kept
\* when the text read is the whole text of one export.
ReadOnce(r) ==
  LET text == files[r.file].data
      chunk == ReadAt(text, Len(r.data), IF r.size > 0 THEN r.size ELSE Len(text))
      ended == r.size > 0 \/ chunk = ""
  IN [r EXCEPT !.data = r.data \o chunk,
               !.from = IF ended /\ r.data \o chunk = text THEN files[r.file].from ELSE <<>>,
               !.at = IF ended THEN "settle" ELSE "read"]

\* The i-th operation in flight, a read that has opened its file, reads
FsRead(i) ==
  /\ i \in 1..Len(inflight)
  /\ inflight[i].op = "readFile"
  /\ inflight[i].at = "read"
  /\ inflight' = [inflight EXCEPT ![i] = ReadOnce(inflight[i])]
  /\ UNCHANGED <<loaded, data, pinnedIds, stats, hostRanking, call, ret, files>>
  /\ UNCHANGED uiVars
  /\ UNCHANGED twin

\* The i-th operation in flight, a read that is done, settles and loadData
\* goes on with the text it took
FsReadFile(i) ==
  /\ i \in 1..Len(inflight)
  /\ inflight[i].op = "readFile"
  /\ inflight[i].at = "settle"
  /\ inflight' = Without(inflight, i)
  /\ \E listings \in {IF inflight[i].failed THEN [threw |-> TRUE]
                       ELSE parseCSV(inflight[i].data)} :
       IF listings.threw
       THEN /\ ret' = Settle(ret, inflight[i].id, "rejected")
            /\ console' = <<"Error reading file:">>
            /\ UNCHANGED twin
       ELSE /\ ret' = Settle(ret, inflight[i].id, "fulfilled")
            /\ twin' = [defined |-> TRUE, data |-> listings.value, pinnedIds |-> <<>>,
                        calls |-> <<>>]
            /\ console' = <<>>
  /\ UNCHANGED <<loaded, data, pinnedIds, stats, hostRanking, call, files, pos, answers>>

CsvNext ==
  \/ \E criteria \in {[rooms |-> 1]} : Filter(criteria)
  \/ \E listingId \in CsvPinIds : PinListing(listingId)
  \/ \E fileName \in FileNames : ExportResults(fileName)
  \/ \E i \in 1..MaxInFlight, ok \in BOOLEAN : FsOpen(i, ok)
  \/ \E i \in 1..MaxInFlight : FsWrite(i)
  \/ \E i \in 1..MaxInFlight : FsWriteFile(i)
  \/ \E filePath \in FileNames : LoadData(filePath)
  \/ \E i \in 1..MaxInFlight : FsStat(i)
  \/ \E i \in 1..MaxInFlight : FsRead(i)
  \/ \E i \in 1..MaxInFlight : FsReadFile(i)

CsvSpec == CsvInit /\ [][CsvNext]_vars

(***************************************************************************)
(* startUI: what the callbacks of the readline questions compute.          *)
(***************************************************************************)
\* Last index at or before j that does not hold white space
RECURSIVE SkipWhiteSpaceBack(_, _)
SkipWhiteSpaceBack(s, j) ==
  IF j >= 1 /\ Ch(s, j) \in WhiteSpace THEN SkipWhiteSpaceBack(s, j - 1) ELSE j

\* s.trim()
trim(s) ==
  LET i == SkipWhiteSpace(s, 1)
      j == SkipWhiteSpaceBack(s, Len(s))
  IN IF i > j THEN "" ELSE SubSeq(s, i, j)

\* Number(s): white space around the text is dropped; the empty text is 0;
\* the whole of the text must be a decimal literal (sign, digits, fraction,
\* exponent) or a hexadecimal one (0x...), otherwise the result is NaN.
\* "Infinity" and the 0b and 0o literals are not read by this model.
Number(s) ==
  LET t == trim(s)
      neg == IsSign(t, 1) /\ Ch(t, 1) = "-"
      i1 == IF IsSign(t, 1) THEN 2 ELSE 1
      j == DigitsEnd(t, i1)
      dot == j <= Len(t) /\ Ch(t, j) = "."
      k == IF dot THEN DigitsEnd(t, j + 1) ELSE j
      frac == IF dot THEN k - (j + 1) ELSE 0
      mant == DigitsValue(t, i1, j) * Pow10(frac)
              + (IF dot THEN DigitsValue(t, j + 1, k) ELSE 0)
      ex == ExponentPart(t, k)
      m == IF neg THEN 0 - mant ELSE mant
      hex == Len(t) >= 3 /\ Ch(t, 1) = "0" /\ Ch(t, 2) \in {"x", "X"}
  IN IF t = "" THEN Num(0)
     ELSE IF hex
     THEN IF HexEnd(t, 3) = Len(t) + 1 THEN Num(HexValue(t, 3, Len(t) + 1)) ELSE NaN
     ELSE IF (j = i1 /\ frac = 0) \/ ex.end # Len(t) + 1 THEN NaN
     ELSE IF ex.x >= 0 THEN Normalise(m * Pow10(ex.x), frac)
     ELSE Normalise(m, frac - ex.x)

\* isNaN(x)
isNaN(x) == x.nan

\* s.split(',')
RECURSIVE split(_)
split(s) ==
  IF ~StrIncludes(s, ",") THEN <<s>>
  ELSE LET i == CHOOSE c \in 1..Len(s) :
                  Ch(s, c) = "," /\ \A later \in (c + 1)..Len(s) : Ch(s, later) # ","
       IN Append(split(SubSeq(s, 1, i - 1)), SubSeq(s, i + 1, Len(s)))

\* The integer a criterion holds for the number x; the answers of the model
\* read as integers or as NaN
Integer(x) == x.m \div Pow10(x.e)

\* The criteria object that the last callback of promptFilter builds
promptFilterCriteria(priceInput, roomsInput, reviewInput) ==
  LET texts == split(priceInput)
      parts == [k \in 1..Len(texts) |-> Number(texts[k])]
      price == IF trim(priceInput) # "" /\ Len(parts) = 2
                  /\ ~isNaN(parts[1]) /\ ~isNaN(parts[2])
               THEN [priceRange |-> <<Integer(parts[1]), Integer(parts[2])>>]
               ELSE NoCriteria
      rooms == IF trim(roomsInput) # "" /\ ~isNaN(Number(roomsInput))
               THEN [rooms |-> Integer(Number(roomsInput))]
               ELSE NoCriteria
      review == IF trim(reviewInput) # "" /\ ~isNaN(Number(reviewInput))
                THEN [reviewScore |-> Integer(Number(reviewInput))]
                ELSE NoCriteria
  IN price @@ rooms @@ review

\* What showMenu prints before it asks for the choice
showMenu ==
  <<"\nSelect an option:", "1. Filter listings", "2. Compute statistics",
    "3. Compute host ranking", "4. Export results",
    "5. Pin Listing (enter listing id)", "6. Print Pinned Listings", "7. Exit">>

\* The lines of case '3'
HostRankingLines(entries) ==
  <<"Host Ranking:">>
  \o [i \in 1..Len(entries) |->
       ToString(i) \o ". Host: " \o entries[i].host
         \o ", Listings: " \o ToString(entries[i].count)]

\* The lines of case '6'
PinnedLines(pinned) ==
  IF Len(pinned) = 0 THEN <<"No listings have been pinned.">>
  ELSE <<"Pinned Listings:">>
       \o [i \in 1..Len(pinned) |->
            ToString(i) \o ". Listing ID: " \o FieldString(pinned[i], "id")
              \o " | Price: " \o FieldString(pinned[i], "price")
              \o " | Bedrooms: " \o FieldString(pinned[i], "bedrooms")]

\* The question that waits for its answer once the callback of the choice
\* has run; closed: rl.close() has been called
NextQuestion(c) ==
  CASE c = "1" -> "priceInput"
    [] c = "4" -> "fileName"
    [] c = "5" -> "id"
    [] c = "7" -> "closed"
    [] OTHER -> "choice"

(***************************************************************************)
(* The answers the model types.                                            *)
(***************************************************************************)
Choices == {"1", "2", " 3 ", "4", "5", "6", "7", "8", ""}

PriceInputs == {"", "100,150", ","}

RoomsInputs == {" ", "2", "two"}

ReviewInputs == {"", "4", "n/a"}

IdInputs == {"A", " B "}

UIDatasets == {<<ListingA, ListingB>>, <<>>}

(***************************************************************************)
(* startUI(handler): showMenu has asked for the first choice.  One action  *)
(* per callback of rl.question and one for the promise of exportResults.   *)
(* In the callbacks of promptFilter, call is the call of filter; the call  *)
(* of getData that follows it only prints the length of its result.        *)
(***************************************************************************)
UIInit ==
  /\ loaded \in UIDatasets
  /\ data = loaded
  /\ pinnedIds = <<>>
  /\ stats = Undefined
  /\ hostRanking = Undefined
  /\ call = [op |-> "createHandler"]
  /\ ret = This
  /\ pos = "choice"
  /\ answers = NoAnswers
  /\ console = showMenu
  /\ twin = Undefined
  /\ files = [fileName \in FileNames |-> NoFile]
  /\ inflight = <<>>

\* rl.question('Enter your choice: ', choice => switch (choice.trim()) ...)
Choice(choice) ==
  LET c == trim(choice)
  IN /\ pos = "choice"
     /\ pos' = NextQuestion(c)
     /\ answers' = [choice |-> choice]
     /\ stats' = IF c = "2" THEN computeStats(data) ELSE stats
     /\ hostRanking' = IF c = "3" THEN computeHostRanking(data) ELSE hostRanking
     /\ call' = CASE c = "2" -> [op |-> "computeStats"]
                  [] c = "3" -> [op |-> "computeHostRanking"]
                  [] c = "6" -> [op |-> "getPinnedListings"]
                  [] OTHER -> call
     /\ ret' = CASE c \in {"2", "3"} -> This
                 [] c = "6" -> [kind |-> "listings",
                                value |-> getPinnedListings(data, pinnedIds)]
                 [] OTHER -> ret
     /\ console' = CASE c = "2" -> <<"Statistics:">> \o showMenu
                     [] c = "3" -> HostRankingLines(computeHostRanking(data).entries)
                                     \o showMenu
                     [] c = "6" -> PinnedLines(getPinnedListings(data, pinnedIds))
                                     \o showMenu
                     [] c = "7" -> <<"Exiting.">>
                     [] c \in {"1", "4", "5"} -> <<>>
                     [] OTHER -> <<"Invalid choice.">> \o showMenu
     /\ UNCHANGED <<files, inflight, twin, loaded, data, pinnedIds>>

\* rl.question('Enter price range (min,max) or leave empty: ', priceInput => ...)
PriceInput(priceInput) ==
  /\ pos = "priceInput"
  /\ pos' = "roomsInput"
  /\ answers' = answers @@ [priceInput |-> priceInput]
  /\ console' = <<>>
  /\ UNCHANGED <<files, inflight, twin, loaded, data, pinnedIds, stats, hostRanking, call, ret>>

\* rl.question('Enter minimum number of rooms or leave empty: ', roomsInput => ...)
RoomsInput(roomsInput) ==
  /\ pos = "roomsInput"
  /\ pos' = "reviewInput"
  /\ answers' = answers @@ [roomsInput |-> roomsInput]
  /\ console' = <<>>
  /\ UNCHANGED <<files, inflight, twin, loaded, data, pinnedIds, stats, hostRanking, call, ret>>

\* rl.question('Enter minimum review score or leave empty: ', reviewInput => ...)
ReviewInput(reviewInput) ==
  /\ pos = "reviewInput"
  /\ \E criteria \in {promptFilterCriteria(answers.priceInput, answers.roomsInput,
                                           reviewInput)} :
       /\ data' = filter(data, criteria)
       /\ call' = [op |-> "filter", arg |-> criteria, from |-> data]
       /\ console' = <<"Filter applied. "
                         \o ToString(Len(getData(filter(data, criteria), pinnedIds)))
                         \o " listings match the criteria.">> \o showMenu
  /\ ret' = This
  /\ pos' = "choice"
  /\ answers' = answers @@ [reviewInput |-> reviewInput]
  /\ UNCHANGED <<files, inflight, twin, loaded, pinnedIds, stats, hostRanking>>

\* rl.question('Enter output file name: ', fileName => handler.exportResults(fileName) ...)
FileName(fileName) ==
  /\ pos = "fileName"
  /\ Len(inflight) < MaxInFlight
  /\ call' = [op |-> "exportResults", arg |-> fileName]
  /\ ret' = [kind |-> "promise", state |-> "pending", id |-> FreeId]
  /\ inflight' = Append(inflight, WriteFile(fileName))
  /\ pos' = "writeFile"
  /\ answers' = answers @@ [fileName |-> fileName]
  /\ console' = <<>>
  /\ UNCHANGED <<files, twin, loaded, data, pinnedIds, stats, hostRanking>>

\* The promise of exportResults settles.  The .then callback prints the
\* file name and calls showMenu; the .catch callback prints the error and
\* calls showMenu, and it runs for a rejected write and for what the .then
\* callback throws.  showMenu prints the menu and calls rl.question, which
\* throws once the interface is closed: thrown in the .catch callback it is
\* a rejection nothing handles, and the process ends with exit code 1.
WriteFileSettled(settled) ==
  /\ pos \in {"writeFile", "writeFileClosed"}
  /\ inflight[1].at = "settle"
  /\ settled = Settled(inflight[1])
  /\ inflight' = Without(inflight, 1)
  /\ ret' = Settle(ret, inflight[1].id, settled)
  /\ console' = (IF settled = "fulfilled"
                 THEN <<"Results exported to " \o answers.fileName>> \o showMenu
                 ELSE <<>>)
                \o (IF settled = "rejected" \/ pos = "writeFileClosed"
                    THEN <<"Error exporting results:">> \o showMenu
                    ELSE <<>>)
  /\ pos' = IF pos = "writeFile" THEN "choice" ELSE "crashed"
  /\ UNCHANGED <<files, twin, loaded, data, pinnedIds, stats, hostRanking, call, answers>>

\* The input ends: readline closes the interface, the callback of the
\* question that waits is never called and nothing is printed; a write
\* that is under way goes on (pos writeFileClosed)
EndOfInput ==
  /\ pos \in {"choice", "priceInput", "roomsInput", "reviewInput", "fileName", "id",
              "writeFile"}
  /\ pos' = IF pos = "writeFile" THEN "writeFileClosed" ELSE "closed"
  /\ answers' = IF pos = "writeFile" THEN answers ELSE NoAnswers
  /\ console' = <<>>
  /\ UNCHANGED <<files, inflight, twin, loaded, data, pinnedIds, stats, hostRanking,
                 call, ret>>

\* rl.question('Enter the listing id to pin: ', id => handler.pinListing(id.trim()) ...)
Id(id) ==
  /\ pos = "id"
  /\ pinnedIds' = pinListing(pinnedIds, trim(id))
  /\ call' = [op |-> "pinListing", arg |-> trim(id)]
  /\ ret' = This
  /\ console' = <<"Listing with id " \o trim(id) \o " has been pinned.">> \o showMenu
  /\ pos' = "choice"
  /\ answers' = answers @@ [id |-> id]
  /\ UNCHANGED <<files, inflight, twin, loaded, data, stats, hostRanking>>

UINext ==
  \/ \E choice \in Choices : Choice(choice)
  \/ \E priceInput \in PriceInputs : PriceInput(priceInput)
  \/ \E roomsInput \in RoomsInputs : RoomsInput(roomsInput)
  \/ \E reviewInput \in ReviewInputs : ReviewInput(reviewInput)
  \/ \E fileName \in FileNames : FileName(fileName)
  \/ \E i \in 1..MaxInFlight, ok \in BOOLEAN : FsOpen(i, ok)
  \/ \E i \in 1..MaxInFlight : FsWrite(i)
  \/ \E settled \in {"fulfilled", "rejected"} : WriteFileSettled(settled)
  \/ \E id \in IdInputs : Id(id)
  \/ EndOfInput

UISpec == UIInit /\ [][UINext]_vars

\* The session on the listings A and B
UIFairInit == UIInit /\ loaded = <<ListingA, ListingB>>

\* The question that waits once the pending question q is answered, or the
\* pending write has settled
AfterAnswer(q) ==
  CASE q = "priceInput" -> "roomsInput"
    [] q = "roomsInput" -> "reviewInput"
    [] q = "fileName" -> "writeFile"
    [] q \in {"reviewInput", "writeFile", "id"} -> "choice"
    [] q = "writeFileClosed" -> "crashed"

\* A step of PriceInput, RoomsInput, ReviewInput, FileName, WriteFileSettled
\* or Id, told by what it does to pos
Answered ==
  /\ pos \in {"priceInput", "roomsInput", "reviewInput", "fileName", "writeFile",
              "writeFileClosed", "id"}
  /\ pos' = AfterAnswer(pos)

\* A step of the write that is under way
FsProgress ==
  \E i \in 1..MaxInFlight : (\E ok \in BOOLEAN : FsOpen(i, ok)) \/ FsWrite(i)

\* Every question asked after the choice is answered, and the write goes on
\* and settles
UIFairSpec == UIFairInit /\ [][UINext]_vars /\ WF_pos(Answered) /\ WF_ioVars(FsProgress)

(***************************************************************************)
(* Two handlers and the two orders of pinListing and filter.  The first    *)
(* handler receives calls of filter and pinListing; CreateTwin is          *)
(* createHandler of the same listings followed by the same calls, which    *)
(* leaves the second handler in the store state of the first.  Then the    *)
(* second handler receives filter(criteria).pinListing(id) and the first   *)
(* pinListing(id).filter(criteria), followed by getData and                *)
(* getPinnedListings.                                                      *)
(***************************************************************************)
CommuteInit == Init

CreateTwin ==
  /\ ~twin.defined
  /\ twin' = [defined |-> TRUE, data |-> data, pinnedIds |-> pinnedIds, calls |-> <<>>]
  /\ call' = [op |-> "createHandler"]
  /\ ret' = This
  /\ UNCHANGED <<loaded, data, pinnedIds, stats, hostRanking>>
  /\ UNCHANGED uiVars
  /\ UNCHANGED ioVars

\* filter, called on the second handler
TwinFilter(criteria) ==
  /\ twin.defined
  /\ twin.calls = <<>>
  /\ twin' = [twin EXCEPT !.data = filter(@, criteria),
                          !.calls = Append(@, [op |-> "filter", arg |-> criteria])]
  /\ UNCHANGED <<loaded, data, pinnedIds, stats, hostRanking, call, ret>>
  /\ UNCHANGED uiVars
  /\ UNCHANGED ioVars

\* pinListing, called on the second handler
TwinPinListing(listingId) ==
  /\ twin.defined
  /\ Len(twin.calls) = 1
  /\ twin' = [twin EXCEPT !.pinnedIds = pinListing(@, listingId),
                          !.calls = Append(@, [op |-> "pinListing", arg |-> listingId])]
  /\ UNCHANGED <<loaded, data, pinnedIds, stats, hostRanking, call, ret>>
  /\ UNCHANGED uiVars
  /\ UNCHANGED ioVars

\* The second handler has received both of its calls
TwinDone == twin.defined /\ Len(twin.calls) = 2

CommuteNext ==
  \/ \E criteria \in HandlerCriteria :
       /\ twin.defined => /\ TwinDone
                          /\ call.op = "pinListing"
                          /\ criteria = twin.calls[1].arg
       /\ Filter(criteria)
  \/ \E listingId \in PinIds :
       /\ twin.defined => /\ TwinDone
                          /\ call.op = "createHandler"
                          /\ listingId = twin.calls[2].arg
       /\ PinListing(listingId)
  \/ CreateTwin
  \/ \E criteria \in HandlerCriteria : TwinFilter(criteria)
  \/ \E listingId \in PinIds : TwinPinListing(listingId)
  \/ TwinDone /\ call.op \in {"filter", "getData", "getPinnedListings"} /\ GetData
  \/ TwinDone /\ call.op \in {"filter", "getData", "getPinnedListings"}
       /\ GetPinnedListings

CommuteSpec == CommuteInit /\ [][CommuteNext]_vars

(***************************************************************************)
(* Notions the properties below are stated with.                           *)
(***************************************************************************)
Elems(q) == {q[i] : i \in 1..Len(q)}

\* s can be obtained from t by deleting elements
RECURSIVE IsSubseq(_, _)
IsSubseq(s, t) ==
  IF s = <<>> THEN TRUE
  ELSE IF t = <<>> THEN FALSE
  ELSE IF Head(s) = Head(t) THEN IsSubseq(Tail(s), Tail(t))
  ELSE IsSubseq(s, Tail(t))

IsPrefix(s, t) == Len(s) <= Len(t) /\ SubSeq(t, 1, Len(s)) = s

NoDuplicates(q) == \A i, j \in 1..Len(q) : q[i] = q[j] => i = j

\* The listing has an id (a non-empty one) and that id is pinned
PinnedAt(d, ids, i) ==
  /\ "id" \in DOMAIN d[i]
  /\ d[i].id # ""
  /\ d[i].id \in Elems(ids)

\* Where the i-th listing of d belongs in the pinned-first view
ViewPosition(d, ids, i) ==
  IF PinnedAt(d, ids, i)
  THEN Cardinality({j \in 1..i : PinnedAt(d, ids, j)})
  ELSE Cardinality({j \in 1..Len(d) : PinnedAt(d, ids, j)})
       + Cardinality({j \in 1..i : ~PinnedAt(d, ids, j)})

(***************************************************************************)
(* C1: getData returns every listing of the working set exactly once, the  *)
(* listings with a pinned id first in working-set order, then the others   *)
(* in working-set order; with nothing pinned it returns the working set;   *)
(* pinned {A, B} on [C, A, D, B] gives [A, B, C, D].                       *)
(***************************************************************************)
C1_GetDataPinnedFirst ==
  call.op = "getData" =>
    /\ Len(ret.value) = Len(data)
    /\ \A i \in 1..Len(data) : ret.value[ViewPosition(data, pinnedIds, i)] = data[i]
    /\ pinnedIds = <<>> => ret.value = data
    /\ (data = PinScenario /\ Elems(pinnedIds) = {"A", "B"})
         => ret.value = <<ListingA, ListingB, ListingC, ListingD>>

C1_Witness ==
  /\ call.op = "getData"
  /\ data = PinScenario
  /\ pinnedIds = <<"A", "B">>
  /\ ret.value = <<ListingA, ListingB, ListingC, ListingD>>

(***************************************************************************)
(* C2: through every call of the handler, exportResults and the steps of   *)
(* its write included, the working set is a subsequence of the loaded      *)
(* listings; each filter call leaves a subsequence of the working set it   *)
(* found (so never a longer one), and pinListing leaves the working set as *)
(* it is.                                                                  *)
(***************************************************************************)
C2_WorkingSetSubsequence ==
  /\ IsSubseq(data, loaded)
  /\ [][/\ IsSubseq(data', loaded')
        /\ call'.op = "filter" => IsSubseq(data', data) /\ Len(data') <= Len(data)
        /\ call'.op = "pinListing" => data' = data]_vars

\* A pin after a filter that removed a listing and an export that is under way
C2_Witness ==
  /\ call.op = "pinListing"
  /\ pinnedIds # <<>>
  /\ data # <<>>
  /\ Len(data) < Len(loaded)
  /\ inflight # <<>>

(***************************************************************************)
(* What the criteria ask of a listing, stated on the exact decimals.       *)
(***************************************************************************)
\* The price reads as a number p with min <= p <= max
PriceInRange(listing, min, max) ==
  LET p == parseFloat(IF "price" \in DOMAIN listing THEN listing.price ELSE "undefined")
  IN /\ ~p.nan
     /\ min * Pow10(p.e) <= p.m
     /\ p.m <= max * Pow10(p.e)

\* The price reads as NaN
PriceIsNaN(listing) ==
  parseFloat(IF "price" \in DOMAIN listing THEN listing.price ELSE "undefined").nan

\* The bedrooms read as an integer, a malformed or missing value as 0
CoercedBedrooms(listing) ==
  LET b == parseInt(IF "bedrooms" \in DOMAIN listing THEN listing.bedrooms ELSE "undefined")
  IN IF b.nan THEN 0 ELSE b.m

\* The review score read as a number is at least n, a malformed or missing value being 0
ScoreAtLeast(listing, n) ==
  LET r == parseFloat(IF "review_scores_rating" \in DOMAIN listing
                      THEN listing.review_scores_rating ELSE "undefined")
  IN IF r.nan THEN 0 >= n ELSE r.m >= n * Pow10(r.e)

\* The listing meets every criterion that criteria holds
MeetsAll(listing, criteria) ==
  /\ "priceRange" \in DOMAIN criteria
       => PriceInRange(listing, criteria.priceRange[1], criteria.priceRange[2])
  /\ "rooms" \in DOMAIN criteria => CoercedBedrooms(listing) >= criteria.rooms
  /\ "reviewScore" \in DOMAIN criteria => ScoreAtLeast(listing, criteria.reviewScore)

(***************************************************************************)
(* C3: two filter calls in a row whose criteria are on disjoint fields     *)
(* leave the working set that one filter with the union of the criteria    *)
(* leaves, and the working set the two calls leave in the other order.     *)
(***************************************************************************)
C3_FiltersIntersect ==
  [][(/\ call.op = "filter"
      /\ call'.op = "filter"
      /\ DOMAIN call.arg \cap DOMAIN call'.arg = {})
       => /\ data' = filter(call.from, call.arg @@ call'.arg)
          /\ data' = filter(filter(call.from, call'.arg), call.arg)]_vars

C3_Witness ==
  /\ call.op = "filter"
  /\ call.from # loaded
  /\ DOMAIN call.arg = {"priceRange"}
  /\ data # call.from
  /\ data # <<>>

(***************************************************************************)
(* C4: a filter call with priceRange = [min, max] keeps only listings      *)
(* whose price reads as a number within [min, max], bounds included,       *)
(* never one whose price reads as NaN (a malformed price, or a listing     *)
(* with no price); with no other criterion it keeps exactly those.         *)
(***************************************************************************)
C4_PriceRangeInclusive ==
  (call.op = "filter" /\ "priceRange" \in DOMAIN call.arg) =>
    LET min == call.arg.priceRange[1]
        max == call.arg.priceRange[2]
        inRange(listing) == PriceInRange(listing, min, max)
    IN /\ \A i \in 1..Len(data) : inRange(data[i]) /\ ~PriceIsNaN(data[i])
       /\ DOMAIN call.arg = {"priceRange"} => data = SelectSeq(call.from, inRange)

\* Of the prices 150.5, 150, none and 100 the range [100, 150] keeps 150 and 100
C4_Witness ==
  /\ call.op = "filter"
  /\ DOMAIN call.arg = {"priceRange"}
  /\ call.arg.priceRange = <<100, 150>>
  /\ call.from = PriceScenario
  /\ data = <<ListingB, ListingA>>

(***************************************************************************)
(* C5: a filter call with only a rooms threshold, whatever its value (0    *)
(* included), keeps exactly the listings whose bedrooms, read as an        *)
(* integer with malformed or missing values as 0, are at least the         *)
(* threshold; likewise reviewScore with review_scores_rating.              *)
(***************************************************************************)
C5_ThresholdsKeepAtLeast ==
  /\ (call.op = "filter" /\ DOMAIN call.arg = {"rooms"}) =>
       LET atLeast(listing) == CoercedBedrooms(listing) >= call.arg.rooms
       IN data = SelectSeq(call.from, atLeast)
  /\ (call.op = "filter" /\ DOMAIN call.arg = {"reviewScore"}) =>
       LET atLeast(listing) == ScoreAtLeast(listing, call.arg.reviewScore)
       IN data = SelectSeq(call.from, atLeast)

(***************************************************************************)
(* C6: filter({}) leaves the working set as it found it, and no filter     *)
(* call drops a listing that meets every criterion the call holds.         *)
(***************************************************************************)
C6_EmptyCriteriaIdentity ==
  call.op = "filter" =>
    /\ DOMAIN call.arg = {} => data = call.from
    /\ LET meets(listing) == MeetsAll(listing, call.arg)
       IN IsSubseq(SelectSeq(call.from, meets), data)

C6_Witness ==
  /\ call.op = "filter"
  /\ DOMAIN call.arg = {}
  /\ ListingDirty \in Elems(data)
  /\ ListingSparse \in Elems(data)

(***************************************************************************)
(* Sums over the working set, stated listing by listing from the front.    *)
(***************************************************************************)
\* The price read as a number, a non-numeric one as 0
CoercedPrice(listing) ==
  LET p == parseFloat(IF "price" \in DOMAIN listing THEN listing.price ELSE "undefined")
  IN IF p.nan THEN Num(0) ELSE p

RECURSIVE PriceSum(_)
PriceSum(d) ==
  IF d = <<>> THEN Num(0) ELSE NumAdd(CoercedPrice(Head(d)), PriceSum(Tail(d)))

RECURSIVE BedroomSum(_)
BedroomSum(d) ==
  IF d = <<>> THEN 0 ELSE CoercedBedrooms(Head(d)) + BedroomSum(Tail(d))

(***************************************************************************)
(* C7: computeStats sets stats from the working set of the moment: count   *)
(* is its length and avgPricePerBedroom is the price sum over the bedroom  *)
(* sum (non-numeric values as 0), or 0 when the bedroom sum is 0; the      *)
(* empty working set gives {0, 0}, and the listings with bedrooms 1, 2 and *)
(* prices 100, 150 left by {rooms: 1} give count 2 and 250/3.              *)
(***************************************************************************)
C7_StatsOfWorkingSet ==
  call.op = "computeStats" =>
    /\ stats.defined
    /\ stats.count = Len(data)
    /\ stats.avgPricePerBedroom.den > 0
    /\ IF BedroomSum(data) = 0
       THEN stats.avgPricePerBedroom = [num |-> 0, den |-> 1]
       ELSE stats.avgPricePerBedroom.num * BedroomSum(data) * Pow10(PriceSum(data).e)
              = PriceSum(data).m * stats.avgPricePerBedroom.den
    /\ data = <<>> => stats = [defined |-> TRUE, count |-> 0,
                               avgPricePerBedroom |-> [num |-> 0, den |-> 1]]
    /\ (loaded = StatsScenario /\ data = filter(loaded, [rooms |-> 1]))
         => stats = [defined |-> TRUE, count |-> 2,
                     avgPricePerBedroom |-> [num |-> 250, den |-> 3]]

C7_Witness ==
  /\ call.op = "computeStats"
  /\ loaded = StatsScenario
  /\ Len(data) = 2
  /\ stats.count = 2
  /\ stats.avgPricePerBedroom = [num |-> 250, den |-> 3]

\* The host_id values present in the working set
HostIds(d) == {d[i].host_id : i \in {j \in 1..Len(d) : "host_id" \in DOMAIN d[j]}}

\* The number of listings of d whose host_id is h
ListingsOf(d, h) ==
  Cardinality({i \in 1..Len(d) : "host_id" \in DOMAIN d[i] /\ d[i].host_id = h})

\* Where h is first met in d
FirstSeen(d, h) ==
  CHOOSE i \in 1..Len(d) :
    /\ "host_id" \in DOMAIN d[i] /\ d[i].host_id = h
    /\ \A j \in 1..(i - 1) : ~("host_id" \in DOMAIN d[j] /\ d[j].host_id = h)

RECURSIVE CountSum(_)
CountSum(entries) ==
  IF entries = <<>> THEN 0 ELSE Head(entries).count + CountSum(Tail(entries))

(***************************************************************************)
(* C8: after computeHostRanking the ranking holds exactly one entry per    *)
(* host_id of the working set, with the number of its listings as count;   *)
(* the counts sum to the size of the working set and never increase along  *)
(* the ranking.                                                            *)
(***************************************************************************)
C8_RankingCountsHosts ==
  call.op = "computeHostRanking" =>
    LET entries == hostRanking.entries
    IN /\ {entries[i].host : i \in 1..Len(entries)} = HostIds(data)
       /\ Len(entries) = Cardinality(HostIds(data))
       /\ \A i \in 1..Len(entries) : entries[i].count = ListingsOf(data, entries[i].host)
       /\ CountSum(entries) = Len(data)
       /\ \A i \in 1..(Len(entries) - 1) : entries[i].count >= entries[i + 1].count

(***************************************************************************)
(* C9: entries of the ranking with equal counts stand in the order in      *)
(* which their host_id is first met in the working set.                    *)
(***************************************************************************)
C9_TiesInFirstSeenOrder ==
  call.op = "computeHostRanking" =>
    LET entries == hostRanking.entries
    IN \A i, j \in 1..Len(entries) :
         (i < j /\ entries[i].count = entries[j].count)
           => FirstSeen(data, entries[i].host) < FirstSeen(data, entries[j].host)

(***************************************************************************)
(* C10: the pinned ids start empty and never repeat; a call (exportResults *)
(* and the steps of its write included) only ever appends to them, so they *)
(* stay in the order of their first pinning and none is lost; only         *)
(* pinListing changes them, by appending its argument, and pinning an id   *)
(* that is already pinned changes nothing.                                 *)
(***************************************************************************)
C10_PinnedIdsGrowOnly ==
  /\ pinnedIds = <<>>
  /\ [][/\ NoDuplicates(pinnedIds')
        /\ IsPrefix(pinnedIds, pinnedIds')
        /\ pinnedIds' # pinnedIds
             => call'.op = "pinListing" /\ pinnedIds' = pinnedIds \o <<call'.arg>>
        /\ (call'.op = "pinListing" /\ call'.arg \in Elems(pinnedIds))
             => pinnedIds' = pinnedIds]_vars

\* B is pinned once more after A, with an export under way
C10_Witness ==
  /\ call.op = "pinListing"
  /\ call.arg = "B"
  /\ pinnedIds = <<"B", "A">>
  /\ inflight # <<>>

(***************************************************************************)
(* C11: getPinnedListings returns the listings of the working set (not of  *)
(* the loaded listings) that have an id and whose id is pinned, in         *)
(* working-set order; a pinned id whose listing a filter removed gives no  *)
(* listing, so neither getPinnedListings nor getData returns a listing     *)
(* that is not in the working set.                                         *)
(***************************************************************************)
C11_PinnedOfWorkingSet ==
  /\ call.op = "getPinnedListings" =>
       LET pinned == {i \in 1..Len(data) : PinnedAt(data, pinnedIds, i)}
       IN /\ Len(ret.value) = Cardinality(pinned)
          /\ \A i \in pinned :
               ret.value[Cardinality({j \in 1..i : PinnedAt(data, pinnedIds, j)})] = data[i]
  /\ call.op \in {"getPinnedListings", "getData"} => Elems(ret.value) \subseteq Elems(data)

C11_Witness ==
  /\ call.op = "getPinnedListings"
  /\ loaded = PinScenario
  /\ {"A", "B"} \subseteq Elems(pinnedIds)
  /\ ListingA \notin Elems(data)
  /\ ret.value = <<ListingB>>

\* Every listing of d has the fields of the first
SameFields(d) == \A i \in 1..Len(d) : DOMAIN d[i] = DOMAIN d[1]

\* The sequences hold the same listings, field for field
FieldForField(d, e) ==
  /\ Len(d) = Len(e)
  /\ \A i \in 1..Len(d) :
       /\ DOMAIN d[i] = DOMAIN e[i]
       /\ \A f \in DOMAIN d[i] \ {"ownKeys"} : d[i][f] = e[i][f]

(***************************************************************************)
(* C12: the listings loaded from the text that exportResults wrote from a  *)
(* non-empty sequence of listings (all with the same fields, their values  *)
(* strings) are that sequence, field for field: once the file is read,     *)
(* loadData prints no error and the handler it creates holds them.         *)
(***************************************************************************)
C12_CsvRoundTrip ==
  [][\A i \in 1..Len(inflight) :
       (/\ inflight[i].op = "readFile"
        /\ inflight[i].at = "settle"
        /\ inflight' = Without(inflight, i)
        /\ ~inflight[i].failed
        /\ inflight[i].from # <<>>
        /\ SameFields(inflight[i].from))
         => /\ console' = <<>>
            /\ twin'.defined
            /\ FieldForField(twin'.data, inflight[i].from)]_vars

(***************************************************************************)
(* The encoding of a sequence of listings, stated from the front.          *)
(***************************************************************************)
\* value with every quote character written twice
RECURSIVE Doubled(_)
Doubled(value) ==
  IF value = "" THEN ""
  ELSE (IF SubSeq(value, 1, 1) = "\"" THEN "\"\"" ELSE SubSeq(value, 1, 1))
       \o Doubled(SubSeq(value, 2, Len(value)))

\* The text of one field: a missing one is empty, one that holds a comma,
\* a quote character or a newline is quoted, any other is written as it is
EncodedField(listing, key) ==
  IF key \notin DOMAIN listing THEN ""
  ELSE IF \E i \in 1..Len(listing[key]) : SubSeq(listing[key], i, i) \in {",", "\"", "\n"}
  THEN "\"" \o Doubled(listing[key]) \o "\""
  ELSE listing[key]

\* The texts with sep between them
RECURSIVE Glued(_, _)
Glued(texts, sep) ==
  IF texts = <<>> THEN ""
  ELSE IF Len(texts) = 1 THEN texts[1]
  ELSE texts[1] \o sep \o Glued(Tail(texts), sep)

\* The header line and one line for each listing of view
EncodedLines(view, keys) ==
  <<Glued(keys, ",")>>
  \o [i \in 1..Len(view) |->
       Glued([k \in 1..Len(keys) |-> EncodedField(view[i], keys[k])], ",")]

(***************************************************************************)
(* C13: the text exportResults hands to fs.writeFile is the encoding of    *)
(* getData(): the empty text for no listing; otherwise the first listing's *)
(* keys (each of them once) joined by commas, then one line per listing in *)
(* getData order, each field quoted (its quotes doubled) exactly when it   *)
(* holds a comma, a quote character or a newline, a missing field being    *)
(* empty.                                                                  *)
(***************************************************************************)
C13_ExportEncoding ==
  [][(call'.op = "exportResults" /\ Len(inflight') = Len(inflight) + 1) =>
       LET view == getData(data, pinnedIds)
           write == inflight'[Len(inflight')]
           keys == IF view = <<>> THEN <<>> ELSE ObjectKeys(view[1])
       IN /\ write.op = "writeFile"
          /\ write.file = call'.arg
          /\ view = <<>> => write.data = ""
          /\ view # <<>> =>
               /\ NoDuplicates(keys)
               /\ Elems(keys) = DOMAIN view[1] \ {"ownKeys"}
               /\ write.data = Glued(EncodedLines(view, keys), "\n")]_vars

(***************************************************************************)
(* C14: every call of filter, computeStats, computeHostRanking, pinListing,*)
(* getPinnedListings and getData returns its ordinary result (the handler, *)
(* or a sequence of listings), whatever the working set, the pinned ids,   *)
(* the fields of the listings and the criteria are; stats is then a count  *)
(* and a number, hostRanking a sequence; and on the empty working set they *)
(* give count 0, average 0, the empty ranking and empty sequences.         *)
(***************************************************************************)
C14_NoErrorOnEmptyOrDirty ==
  /\ call.op \in {"filter", "computeStats", "computeHostRanking", "pinListing"}
       => ret = [kind |-> "handler"]
  /\ call.op \in {"getPinnedListings", "getData"}
       => ret.kind = "listings" /\ Len(ret.value) <= Len(data)
  /\ call.op = "computeStats"
       => stats.defined /\ stats.count \in Nat /\ stats.avgPricePerBedroom.den > 0
  /\ call.op = "computeHostRanking"
       => hostRanking.defined /\ Len(hostRanking.entries) <= Len(data)
  /\ data = <<>> =>
       /\ call.op = "computeStats"
            => stats.count = 0 /\ stats.avgPricePerBedroom = [num |-> 0, den |-> 1]
       /\ call.op = "computeHostRanking" => hostRanking.entries = <<>>
       /\ call.op \in {"getPinnedListings", "getData"} => ret.value = <<>>

C14_Witness ==
  /\ call.op = "computeStats"
  /\ ListingDirty \in Elems(loaded)
  /\ data = <<>>
  /\ pinnedIds # <<>>
  /\ hostRanking.defined
  /\ stats = [defined |-> TRUE, count |-> 0, avgPricePerBedroom |-> [num |-> 0, den |-> 1]]

\* How many times the lines hold the heading of the menu
MenuShown(lines) ==
  Cardinality({i \in 1..Len(lines) : lines[i] = "\nSelect an option:"})

\* The lines hold the text
Printed(lines, text) == \E i \in 1..Len(lines) : lines[i] = text

(***************************************************************************)
(* C15: exportResults answers the file name with a promise, and when the   *)
(* write fails the promise is rejected: the interface prints the error and *)
(* shows the menu once, the process does not end on an error, and while    *)
(* the input is open the next choice is asked for; from the file name to   *)
(* the settling of the write the working set and the pinned ids stay as    *)
(* they were.                                                              *)
(***************************************************************************)
C15_ExportFailureReported ==
  [][/\ (pos = "fileName" /\ pos' # "closed")
          => ret'.kind = "promise" /\ ret'.state = "pending" /\ pos' = "writeFile"
     /\ (pos \in {"writeFile", "writeFileClosed"} /\ ret'.state = "rejected")
          => /\ Printed(console', "Error exporting results:")
             /\ MenuShown(console') = 1
             /\ pos' # "crashed"
             /\ pos = "writeFile" => pos' = "choice"
     /\ pos \in {"fileName", "writeFile", "writeFileClosed"}
          => data' = data /\ pinnedIds' = pinnedIds]_vars

(***************************************************************************)
(* What counts as a numeric answer: a numeral, blanks around it allowed.   *)
(***************************************************************************)
IsNumeric(text) ==
  LET t == trim(text)
  IN /\ \E i \in 1..Len(t) : SubSeq(t, i, i) \in Digits
     /\ \A i \in 1..Len(t) :
          \/ SubSeq(t, i, i) \in Digits \cup {"."}
          \/ i = 1 /\ SubSeq(t, i, i) \in {"+", "-"}
     /\ Cardinality({i \in 1..Len(t) : SubSeq(t, i, i) = "."}) <= 1

\* min,max with both numeric
IsNumericRange(text) ==
  /\ Cardinality({i \in 1..Len(text) : SubSeq(text, i, i) = ","}) = 1
  /\ LET c == CHOOSE i \in 1..Len(text) : SubSeq(text, i, i) = ","
     IN IsNumeric(SubSeq(text, 1, c - 1)) /\ IsNumeric(SubSeq(text, c + 1, Len(text)))

(***************************************************************************)
(* C17: when the three questions of the filter prompt are answered, the    *)
(* criteria passed to filter hold no priceRange if the first answer is     *)
(* blank or not a numeric min,max, no rooms if the second is blank or not  *)
(* numeric, no reviewScore if the third is blank or not numeric; and the   *)
(* filter is applied with the criteria that remain.                        *)
(***************************************************************************)
C17_BlankOrNonNumericDropped ==
  (call.op = "filter" /\ pos = "choice" /\ "reviewInput" \in DOMAIN answers) =>
    /\ ~IsNumericRange(answers.priceInput) => "priceRange" \notin DOMAIN call.arg
    /\ ~IsNumeric(answers.roomsInput) => "rooms" \notin DOMAIN call.arg
    /\ ~IsNumeric(answers.reviewInput) => "reviewScore" \notin DOMAIN call.arg
    /\ ret = [kind |-> "handler"]
    /\ LET meets(listing) == MeetsAll(listing, call.arg)
       IN data = SelectSeq(call.from, meets)

(***************************************************************************)
(* C18: a choice that is none of 1 .. 7 is reported as invalid, changes    *)
(* nothing of the store and is followed by the menu; whenever the next     *)
(* choice is asked for, the menu has been shown exactly once since the     *)
(* last answer, and otherwise not at all: not while another question or    *)
(* the write is pending, not after the exit; the choice 7 and no other     *)
(* closes the interface, after which no step is taken; and a selection     *)
(* whose questions are answered and whose write settles leads back to the  *)
(* menu, unless the input ends, which closes the interface.                *)
(***************************************************************************)
C18_MenuLoop ==
  /\ [][/\ (/\ pos = "choice"
             /\ "choice" \in DOMAIN answers'
             /\ trim(answers'.choice) \notin {"1", "2", "3", "4", "5", "6", "7"})
             => /\ Printed(console', "Invalid choice.")
                /\ pos' = "choice"
                /\ UNCHANGED <<loaded, data, pinnedIds, stats, hostRanking>>
        /\ pos' = "choice" => MenuShown(console') = 1
        /\ pos' # "choice" => MenuShown(console') = 0
        /\ (pos = "choice" /\ "choice" \in DOMAIN answers')
             => (trim(answers'.choice) = "7" <=> pos' = "closed")
        /\ pos # "closed"]_vars
  /\ (pos \notin {"choice", "closed"}) ~> (pos \in {"choice", "closed"})

(***************************************************************************)
(* C16: computeStats, computeHostRanking, pinListing, getPinnedListings,   *)
(* getData and exportResults leave the working set as it is (the same      *)
(* listings in the same order); filter, computeStats, computeHostRanking,  *)
(* getPinnedListings, getData and exportResults leave the pinned ids as    *)
(* they are.                                                               *)
(***************************************************************************)
C16_FrameConditions ==
  [][/\ call'.op \in {"computeStats", "computeHostRanking", "pinListing",
                       "getPinnedListings", "getData", "exportResults"}
          => data' = data
     /\ call'.op \in {"filter", "computeStats", "computeHostRanking",
                       "getPinnedListings", "getData", "exportResults"}
          => pinnedIds' = pinnedIds]_vars

\* An export of [B, A] is waiting to settle, and the working set is still [A, B]
C16_Witness ==
  /\ call.op = "exportResults"
  /\ ret.state = "pending"
  /\ Len(inflight) = 1
  /\ inflight[1].from = <<ListingB, ListingA>>
  /\ data = <<ListingA, ListingB>>
  /\ pinnedIds = <<"B">>
  /\ stats.defined
  /\ hostRanking.defined

(***************************************************************************)
(* C19: filter, computeStats, computeHostRanking and pinListing return the *)
(* handler they were called on, so a call made on the result of the one    *)
(* before is a call on that handler; and each call works on what the call  *)
(* before it has left: after a filter, computeStats counts the listings    *)
(* that the filter kept and computeHostRanking ranks them, and a filter    *)
(* and a pinListing that follow one another leave the working set of the   *)
(* filter and the pinned ids of the pinListing.                            *)
(***************************************************************************)
C19_Chaining ==
  [][/\ call'.op \in {"filter", "computeStats", "computeHostRanking", "pinListing"}
          => ret' = [kind |-> "handler"]
     /\ (call.op = "filter" /\ call'.op = "computeStats")
          => /\ stats'.count
                  = Cardinality({i \in 1..Len(call.from) : MeetsAll(call.from[i], call.arg)})
             /\ stats' = computeStats(filter(call.from, call.arg))
     /\ (call.op = "filter" /\ call'.op = "computeHostRanking")
          => hostRanking' = computeHostRanking(filter(call.from, call.arg))
     /\ (call.op = "filter" /\ call'.op = "pinListing")
          => /\ data' = filter(call.from, call.arg)
             /\ pinnedIds' = pinListing(pinnedIds, call'.arg)
     /\ (call.op = "pinListing" /\ call'.op = "filter")
          => /\ data' = filter(data, call'.arg)
             /\ pinnedIds' = pinnedIds
             /\ call.arg \in Elems(pinnedIds')
     /\ (call.op = "computeStats" /\ call'.op = "computeHostRanking")
          => stats' = stats /\ stats'.count = Len(data')]_vars

C19_Witness ==
  /\ call.op = "computeStats"
  /\ ret = [kind |-> "handler"]
  /\ loaded = StatsScenario
  /\ data = <<ListingA, ListingB>>
  /\ stats.count = 2
  /\ hostRanking.defined
  /\ Len(hostRanking.entries) = 2
  /\ hostRanking.entries[1].count = 1
  /\ pinnedIds = <<"B">>

(***************************************************************************)
(* C20: every stats that computeStats has set holds a count that is an     *)
(* integer >= 0 and an avgPricePerBedroom that is a number >= 0, whatever  *)
(* the price and bedrooms fields of the working set hold.                  *)
(***************************************************************************)
C20_StatsNonNegative ==
  stats.defined =>
    /\ stats.count \in Nat
    /\ stats.avgPricePerBedroom.den > 0
    /\ stats.avgPricePerBedroom.num >= 0

(***************************************************************************)
(* C21: pinListing and filter commute.  From the same store state,         *)
(* pinListing(id) then filter(criteria) on one handler and                 *)
(* filter(criteria) then pinListing(id) on the other leave the same        *)
(* working set and the same pinned ids, and getData and getPinnedListings  *)
(* return the same on both; and in the getData of the handler that was     *)
(* pinned first, every listing of id that the filter has kept comes ahead  *)
(* of every listing that is not pinned, at the very front when id is the   *)
(* only pinned id.                                                         *)
(***************************************************************************)
C21_PinFilterCommute ==
  (TwinDone /\ call.op \in {"filter", "getData", "getPinnedListings"}) =>
    LET id == twin.calls[2].arg
        kept == {i \in 1..Len(data) :
                   "id" \in DOMAIN data[i] /\ data[i].id = id /\ id # ""}
    IN /\ data = twin.data
       /\ pinnedIds = twin.pinnedIds
       /\ call.op = "getPinnedListings"
            => ret.value = getPinnedListings(twin.data, twin.pinnedIds)
       /\ call.op = "getData" =>
            /\ ret.value = getData(twin.data, twin.pinnedIds)
            /\ \A i \in kept :
                 \E k \in 1..Len(ret.value) :
                   /\ ret.value[k] = data[i]
                   /\ \A m \in 1..(k - 1) : PinnedAt(ret.value, pinnedIds, m)
            /\ (kept # {} /\ pinnedIds = <<id>>) => ret.value[1].id = id

\* B is pinned while A is, the filter keeps both, and getData puts them first
C21_Witness ==
  /\ TwinDone
  /\ call.op = "getData"
  /\ twin.calls = <<[op |-> "filter", arg |-> [rooms |-> 1]],
                    [op |-> "pinListing", arg |-> "B"]>>
  /\ loaded = PinScenario
  /\ pinnedIds = <<"A", "B">>
  /\ data = <<ListingA, ListingD, ListingB>>
  /\ ret.value = <<ListingA, ListingB, ListingD>>
  /\ ret.value # data

====
